---- MODULE Spec2Model ----
(***************************************************************************)
(* Model of solidspy/assemutil.py: equation counting, the assembly         *)
(* operator, dense and sparse stiffness assembly and load assembly.        *)
(*                                                                         *)
(* Arrays are functions over 0..n-1, as in the source.  The node table and *)
(* the load list are float arrays: a float x is represented by the integer *)
(* 2*x, so halves are representable and int() is a truncation toward zero. *)
(* The element table is an integer array.  Stiffness and load values are   *)
(* exact integers (floating-point rounding is not modelled).               *)
(***************************************************************************)
EXTENDS Integers, Sequences, FiniteSets, TLC

VARIABLES nodes, elements, mats, loads, uel,
          eqRet, dmeRet, denseSt, el, KG, sparseRet, loadRet

vars == <<nodes, elements, mats, loads, uel,
          eqRet, dmeRet, denseSt, el, KG, sparseRet, loadRet>>

inputs == <<nodes, elements, mats, loads, uel>>

(***************************************************************************)
(* Python / numpy primitives                                               *)
(***************************************************************************)
\* the float with integral value n
Flt(n) == 2 * n

\* int(x) of a float x: truncation toward zero
PyInt(x) == IF x >= 0 THEN x \div 2 ELSE -((-x) \div 2)

\* number of rows of an array
Size(a) == Cardinality(DOMAIN a)

\* numpy accepts index k on an axis of length n iff -n <= k < n ...
InRange(k, n) == -n <= k /\ k < n

\* ... and a negative index counts from the end
Wrap(k, n) == IF k < 0 THEN k + n ELSE k

\* np.zeros([n])
Zeros(n) == [q \in 0..(n - 1) |-> 0]

\* np.zeros((n, m))
Zeros2(n, m) == [r \in 0..(n - 1) |-> [c \in 0..(m - 1) |-> 0]]

\* the result of a call that raised an exception
Raised == [st |-> "raised"]

(***************************************************************************)
(* eqcounter                                                               *)
(***************************************************************************)
\* IBC[i, k] = int(nodes[i, k+3])
IBCinit(nds) == [i \in 0..(Size(nds) - 1) |-> [k \in 0..1 |-> PyInt(nds[i][k + 3])]]

\* one visit of the counting loop: position (i, j) of the scan
eqvisit_noincr(ibc, n, i, j) ==
    IF ibc[i][j] = 0 THEN [IBC |-> [ibc EXCEPT ![i][j] = n], neq |-> n]
                     ELSE [IBC |-> ibc, neq |-> n]

eqvisit(ibc, n, i, j) ==
    IF ibc[i][j] = 0 THEN [IBC |-> [ibc EXCEPT ![i][j] = n], neq |-> n + 1]
                     ELSE [IBC |-> ibc, neq |-> n]

\* the counting loop from scan position p = 2*i + j on
RECURSIVE eqloop(_, _, _)
eqloop(ibc, n, p) ==
    IF p >= 2 * Size(ibc) THEN [st |-> "ok", neq |-> n, IBC |-> ibc]
    ELSE LET v == eqvisit(ibc, n, p \div 2, p % 2)
         IN  eqloop(v.IBC, v.neq, p + 1)

eqcounter(nds) == eqloop(IBCinit(nds), 0, 0)

(***************************************************************************)
(* fem.eletype and the kernels of uelutil (not part of assemutil.py)       *)
(***************************************************************************)
\* element type codes of the registry ELEM_ID
ElemTypes == {1, 2, 3, 5, 6, 7}

\* node count of an element type
TypeNodes(iet) == CASE iet = 1 -> 4
                    [] iet = 2 -> 6
                    [] iet = 3 -> 3
                    [] OTHER   -> 2

\* fem.eletype(iet): (ndof, nnodes, ngpts); two DOFs per node
eletype(iet) ==
    IF iet \in ElemTypes
    THEN [st |-> "ok", ndof |-> 2 * TypeNodes(iet), nnodes |-> TypeNodes(iet)]
    ELSE [st |-> "raised", ndof |-> 0, nnodes |-> 0]

\* entry (a, b) of the local matrix a kernel returns for material parameter k
\* and ndof local DOFs: an opaque, unsymmetric matrix with distinct entries
KernelEntry(k, ndof, a, b) == k * (ndof * a + b + 1)

(***************************************************************************)
(* DME                                                                     *)
(***************************************************************************)
\* width of IELCON and of the assembly operator
IELCONCols == 9
DMECols == 18

\* local DOF written for node slot j, component l
DMEslot_swapped(j, l) == 2 * j + (1 - l)

DMEslot(j, l) == 2 * j + l

\* the node loop of one element row: slots j..nnodes-1 of row i
RECURSIVE DMEnodes(_, _, _, _, _)
DMEnodes(row, ibc, erow, nnodes, j) ==
    IF j >= nnodes THEN [st |-> "ok", row |-> row]
    ELSE IF ~(j + 3 \in DOMAIN erow) \/ j >= IELCONCols THEN [st |-> "raised", row |-> row]
    ELSE LET kk == erow[j + 3]
         IN  IF ~InRange(kk, Size(ibc)) \/ DMEslot(j, 1) >= DMECols
             THEN [st |-> "raised", row |-> row]
             ELSE LET k2 == Wrap(kk, Size(ibc))
                      r2 == [d \in DOMAIN row |->
                               IF d = DMEslot(j, 0) THEN ibc[k2][0]
                               ELSE IF d = DMEslot(j, 1) THEN ibc[k2][1]
                               ELSE row[d]]
                  IN  DMEnodes(r2, ibc, erow, nnodes, j + 1)

\* the element loop: rows i..nels-1
RECURSIVE DMErows(_, _, _, _)
DMErows(op, ibc, els, i) ==
    IF i >= Size(els) THEN [st |-> "ok", DME |-> op]
    ELSE LET t == eletype(els[i][1])
         IN  IF t.st = "raised" THEN [st |-> "raised", DME |-> op]
             ELSE LET r == DMEnodes(op[i], ibc, els[i], t.nnodes, 0)
                  IN  IF r.st = "raised" THEN [st |-> "raised", DME |-> op]
                      ELSE DMErows([op EXCEPT ![i] = r.row], ibc, els, i + 1)

DME(nds, els) ==
    LET eq == eqcounter(nds)
        r  == DMErows(Zeros2(Size(els), DMECols), eq.IBC, els, 0)
    IN  IF r.st = "raised" THEN Raised
        ELSE [st |-> "ok", DME |-> r.DME, IBC |-> eq.IBC, neq |-> eq.neq]

(***************************************************************************)
(* retriever                                                               *)
(***************************************************************************)
\* the coordinate loop: nodes[IELCON[j], 1] and nodes[IELCON[j], 2] must exist
RECURSIVE CoordsOk(_, _, _, _)
CoordsOk(erow, nds, nnodes, j) ==
    IF j >= nnodes THEN TRUE
    ELSE /\ j + 3 \in DOMAIN erow
         /\ j < IELCONCols
         /\ InRange(erow[j + 3], Size(nds))
         /\ CoordsOk(erow, nds, nnodes, j + 1)

\* the local matrix of ndof x ndof entries for material parameter k
Kloc(k, ndof) ==
    [a \in 0..(ndof - 1) |-> [b \in 0..(ndof - 1) |-> KernelEntry(k, ndof, a, b)]]

\* retriever(elements, mats, nodes, i, uel): (kloc, ndof, elem_type); the element
\* table holds integers, so np.int(elements[i, 2]) is elements[i, 2]
retriever(els, mts, nds, i, u) ==
    LET elem_type == els[i][1]
        t  == eletype(elem_type)
        im == els[i][2]
    IN  IF t.st = "raised" THEN Raised
        ELSE IF ~InRange(im, Size(mts)) THEN Raised
        ELSE IF ~CoordsOk(els[i], nds, t.nnodes, 0) THEN Raised
        ELSE LET params == mts[Wrap(im, Size(mts))]
             IN  IF ~u.given
                 THEN [st |-> "ok", kloc |-> Kloc(params[0], t.ndof),
                       ndof |-> t.ndof, iet |-> elem_type]
                 ELSE [st |-> "ok", kloc |-> Kloc(params[0], u.ndof),
                       ndof |-> u.ndof, iet |-> elem_type]

(***************************************************************************)
(* dense_assem                                                             *)
(***************************************************************************)
\* dme = DME[el, :ndof]: a slice never raises, it is cut at the row's width
Slice(row, ndof) == [d \in {x \in DOMAIN row : x < ndof} |-> row[d]]

\* KG[glob_row, glob_col] = KG[glob_row, glob_col] + kloc[row, col]
KGadd_overwrite(K, r, c, v) == [K EXCEPT ![r][c] = v]

KGadd(K, r, c, v) == [K EXCEPT ![r][c] = @ + v]

\* the column loop of one local row whose global row gr is not -1
RECURSIVE DenseCols(_, _, _, _, _, _)
DenseCols(K, kloc, dme, ndof, row, col) ==
    IF col >= ndof THEN [st |-> "ok", KG |-> K]
    ELSE IF ~(col \in DOMAIN dme) THEN [st |-> "raised", KG |-> K]
    ELSE LET gr == dme[row]
             gc == dme[col]
             n  == Size(K)
         IN  IF gc = -1 THEN DenseCols(K, kloc, dme, ndof, row, col + 1)
             ELSE IF ~InRange(gr, n) \/ ~InRange(gc, n) THEN [st |-> "raised", KG |-> K]
             ELSE DenseCols(KGadd(K, Wrap(gr, n), Wrap(gc, n), kloc[row][col]),
                            kloc, dme, ndof, row, col + 1)

\* the row loop of one element
RECURSIVE DenseRows(_, _, _, _, _)
DenseRows(K, kloc, dme, ndof, row) ==
    IF row >= ndof THEN [st |-> "ok", KG |-> K]
    ELSE IF ~(row \in DOMAIN dme) THEN [st |-> "raised", KG |-> K]
    ELSE IF dme[row] = -1 THEN DenseRows(K, kloc, dme, ndof, row + 1)
    ELSE LET r == DenseCols(K, kloc, dme, ndof, row, 0)
         IN  IF r.st = "raised" THEN r
             ELSE DenseRows(r.KG, kloc, dme, ndof, row + 1)

\* the body of the element loop for element e
DenseElement(K, els, mts, nds, op, u, e) ==
    LET r == retriever(els, mts, nds, e, u)
    IN  IF r.st = "raised" THEN [st |-> "raised", KG |-> K]
        ELSE DenseRows(K, r.kloc, Slice(op[e], r.ndof), r.ndof, 0)

\* the element loop from element e on, and the return
RECURSIVE DenseFrom(_, _, _, _, _, _, _)
DenseFrom(K, els, mts, nds, op, u, e) ==
    IF e >= Size(els) THEN [st |-> "ok", KG |-> K]
    ELSE LET r == DenseElement(K, els, mts, nds, op, u, e)
         IN  IF r.st = "raised" THEN r
             ELSE DenseFrom(r.KG, els, mts, nds, op, u, e + 1)

dense_assem(els, mts, nds, n, op, u) ==
    LET r == DenseFrom(Zeros2(n, n), els, mts, nds, op, u, 0)
    IN  IF r.st = "raised" THEN Raised ELSE r

(***************************************************************************)
(* sparse_assem                                                            *)
(***************************************************************************)
RECURSIVE SparseCols(_, _, _, _, _, _)
SparseCols(coo, kloc, dme, ndof, row, col) ==
    IF col >= ndof THEN [st |-> "ok", coo |-> coo]
    ELSE IF ~(col \in DOMAIN dme) THEN [st |-> "raised", coo |-> coo]
    ELSE IF dme[col] = -1 THEN SparseCols(coo, kloc, dme, ndof, row, col + 1)
    ELSE SparseCols(Append(coo, <<dme[row], dme[col], kloc[row][col]>>),
                    kloc, dme, ndof, row, col + 1)

RECURSIVE SparseRows(_, _, _, _, _)
SparseRows(coo, kloc, dme, ndof, row) ==
    IF row >= ndof THEN [st |-> "ok", coo |-> coo]
    ELSE IF ~(row \in DOMAIN dme) THEN [st |-> "raised", coo |-> coo]
    ELSE IF dme[row] = -1 THEN SparseRows(coo, kloc, dme, ndof, row + 1)
    ELSE LET r == SparseCols(coo, kloc, dme, ndof, row, 0)
         IN  IF r.st = "raised" THEN r
             ELSE SparseRows(r.coo, kloc, dme, ndof, row + 1)

RECURSIVE SparseFrom(_, _, _, _, _, _, _)
SparseFrom(coo, els, mts, nds, op, u, e) ==
    IF e >= Size(els) THEN [st |-> "ok", coo |-> coo]
    ELSE LET r == retriever(els, mts, nds, e, u)
         IN  IF r.st = "raised" THEN [st |-> "raised", coo |-> coo]
             ELSE LET s == SparseRows(coo, r.kloc, Slice(op[e], r.ndof), r.ndof, 0)
                  IN  IF s.st = "raised" THEN s
                      ELSE SparseFrom(s.coo, els, mts, nds, op, u, e + 1)

\* coo_matrix((vals, (rows, cols)), shape=(n, n)) accepts only indices in 0..n-1
CooOk(coo, n) ==
    \A t \in 1..Len(coo) : /\ 0 <= coo[t][1] /\ coo[t][1] < n
                           /\ 0 <= coo[t][2] /\ coo[t][2] < n

\* .tocsr(): triples of the same (row, col) are summed
RECURSIVE ToCsr(_, _, _)
ToCsr(K, coo, t) ==
    IF t > Len(coo) THEN K
    ELSE ToCsr([K EXCEPT ![coo[t][1]][coo[t][2]] = @ + coo[t][3]], coo, t + 1)

sparse_assem(els, mts, nds, n, op, u) ==
    LET r == SparseFrom(<<>>, els, mts, nds, op, u, 0)
    IN  IF r.st = "raised" THEN Raised
        ELSE IF ~CooOk(r.coo, n) THEN Raised
        ELSE [st |-> "ok", KG |-> ToCsr(Zeros2(n, n), r.coo, 1)]

(***************************************************************************)
(* loadasem                                                                *)
(***************************************************************************)
\* RHSG[q] = v
RHSGset_sum(R, q, v) == [R EXCEPT ![q] = @ + v]

RHSGset(R, q, v) == [R EXCEPT ![q] = v]

\* the load loop from entry i on
RECURSIVE LoadFrom(_, _, _, _)
LoadFrom(R, lds, ibc, i) ==
    IF i >= Size(lds) THEN [st |-> "ok", RHSG |-> R]
    ELSE LET il == PyInt(lds[i][0])
             n  == Size(R)
         IN  IF ~InRange(il, Size(ibc)) THEN Raised
             ELSE LET ilx == ibc[Wrap(il, Size(ibc))][0]
                      ily == ibc[Wrap(il, Size(ibc))][1]
                  IN  IF ilx # -1 /\ ~InRange(ilx, n) THEN Raised
                      ELSE LET R1 == IF ilx # -1 THEN RHSGset(R, Wrap(ilx, n), lds[i][1])
                                                ELSE R
                           IN  IF ily # -1 /\ ~InRange(ily, n) THEN Raised
                               ELSE LET R2 == IF ily # -1
                                              THEN RHSGset(R1, Wrap(ily, n), lds[i][2])
                                              ELSE R1
                                    IN  LoadFrom(R2, lds, ibc, i + 1)

loadasem(lds, ibc, n) == LoadFrom(Zeros(n), lds, ibc, 0)

(***************************************************************************)
(* assembler                                                               *)
(***************************************************************************)
assembler(els, mts, nds, n, op, sparse, u) ==
    IF sparse THEN sparse_assem(els, mts, nds, n, op, u)
              ELSE dense_assem(els, mts, nds, n, op, u)

(***************************************************************************)
(* Inputs                                                                  *)
(***************************************************************************)
MaxNodes == 2
MaxEls == 2
MaxLoads == 2
MaxMats == 2

\* a node row [id, x, y, bc_x, bc_y]
MkNode(i, bc) ==
    [c \in 0..4 |-> IF c = 0 THEN Flt(i) ELSE IF c = 3 THEN bc[1]
                    ELSE IF c = 4 THEN bc[2] ELSE 0]

\* an element row [id, type, material, node ids ...] of an array with w node columns
MkElem(i, iet, im, conn, w) ==
    [c \in 0..(2 + w) |-> IF c = 0 THEN i ELSE IF c = 1 THEN iet
                          ELSE IF c = 2 THEN im
                          ELSE IF c - 3 \in DOMAIN conn THEN conn[c - 3] ELSE 0]

\* a load row [node id, load_x, load_y]
MkLoad(n, lx, ly) == [c \in 0..2 |-> IF c = 0 THEN Flt(n) ELSE IF c = 1 THEN lx ELSE ly]

\* BC flags: -2, -1, -0.5, 0, 0.5, 1
FlagVals == {Flt(-2), Flt(-1), -1, 0, 1, Flt(1)}

\* the BC flags of the input files: 0 (free) and -1 (constrained)
FileFlags == {0, Flt(-1)}

\* BC flag pairs of a node: free, half constrained, constrained by -1,
\* and constrained by flags other than -1
BCPairs == {<<0, 0>>, <<0, Flt(-1)>>, <<Flt(-1), Flt(-1)>>, <<Flt(-2), Flt(1)>>}

\* node tables of n rows with BC pairs from P
NodeTables(n, P) == {[i \in 0..(n - 1) |-> MkNode(i, f[i])] : f \in [0..(n - 1) -> P]}

\* material table: row im holds the single parameter im + 1
MatTable(n) == [im \in 0..(n - 1) |-> [c \in 0..0 |-> im + 1]]

\* node id choices of an element of type t: any ids from N / pairwise distinct ids
AnyConn(t, N) == [0..(TypeNodes(t) - 1) -> N]

DistinctConn(t, N) == {cn \in AnyConn(t, N) : \A x, y \in DOMAIN cn : x # y => cn[x] # cn[y]}

\* element rows of w node columns, numbered i, with a type from T, a material
\* index from M and node ids from C(type)
ElemRows(i, w, T, M, C(_)) ==
    UNION {{MkElem(i, t, k, cn, w) : k \in M, cn \in C(t)} : t \in T}

\* element tables of m such rows
ElemTables(m, w, T, M, C(_)) ==
    {[i \in 0..(m - 1) |-> [f[i] EXCEPT ![0] = i]] :
        f \in [0..(m - 1) -> ElemRows(0, w, T, M, C)]}

\* load lists of m rows on nodes from N; row i carries the loads (2i+1, 2i+2)
LoadLists(m, N) ==
    {[i \in 0..(m - 1) |-> MkLoad(f[i], 2 * i + 1, 2 * i + 2)] : f \in [0..(m - 1) -> N]}

NoUel == [given |-> FALSE, ndof |-> 0]

Idle == [st |-> "idle"]

\* the calls a caller may make, in this order
Calls == <<"eqcounter", "DME", "dense", "sparse", "loadasem">>

(***************************************************************************)
(* State machine: a caller runs the calls of its plan in order             *)
(***************************************************************************)
VARIABLE plan

allvars == <<vars, plan>>

InitOut ==
    /\ eqRet = Idle
    /\ dmeRet = Idle
    /\ denseSt = "idle"
    /\ el = 0
    /\ KG = Zeros2(0, 0)
    /\ sparseRet = Idle
    /\ loadRet = Idle

\* call number c of Calls is over (or not planned)
Over(c) ==
    \/ Calls[c] \notin plan
    \/ CASE c = 1 -> eqRet.st # "idle"
         [] c = 2 -> dmeRet.st # "idle"
         [] c = 3 -> denseSt \in {"returned", "raised"}
         [] c = 4 -> sparseRet.st # "idle"
         [] OTHER -> loadRet.st # "idle"

\* call number c is the next one of the plan
Ready(c) == Calls[c] \in plan /\ \A d \in 1..(c - 1) : Over(d)

CallEqcounter ==
    /\ Ready(1) /\ eqRet.st = "idle"
    /\ eqRet' = eqcounter(nodes)
    /\ UNCHANGED <<inputs, plan, dmeRet, denseSt, el, KG, sparseRet, loadRet>>

CallDME ==
    /\ Ready(2) /\ dmeRet.st = "idle"
    /\ dmeRet' = DME(nodes, elements)
    /\ UNCHANGED <<inputs, plan, eqRet, denseSt, el, KG, sparseRet, loadRet>>

\* assembler(..., sparse=False): KG = np.zeros((neq, neq))
DenseBegin ==
    /\ Ready(3) /\ dmeRet.st = "ok" /\ denseSt = "idle"
    /\ KG' = Zeros2(dmeRet.neq, dmeRet.neq)
    /\ el' = 0
    /\ denseSt' = "running"
    /\ UNCHANGED <<inputs, plan, eqRet, dmeRet, sparseRet, loadRet>>

\* one iteration of the element loop of dense_assem
DenseStep ==
    /\ denseSt = "running" /\ el < Size(elements)
    /\ LET r == DenseElement(KG, elements, mats, nodes, dmeRet.DME, uel, el)
       IN  /\ KG' = r.KG
           /\ denseSt' = IF r.st = "raised" THEN "raised" ELSE "running"
           /\ el' = IF r.st = "raised" THEN el ELSE el + 1
    /\ UNCHANGED <<inputs, plan, eqRet, dmeRet, sparseRet, loadRet>>

\* return KG
DenseReturn ==
    /\ denseSt = "running" /\ el = Size(elements)
    /\ denseSt' = "returned"
    /\ UNCHANGED <<inputs, plan, eqRet, dmeRet, el, KG, sparseRet, loadRet>>

\* assembler(..., sparse=True)
CallSparse ==
    /\ Ready(4) /\ dmeRet.st = "ok" /\ sparseRet.st = "idle"
    /\ sparseRet' = assembler(elements, mats, nodes, dmeRet.neq, dmeRet.DME, TRUE, uel)
    /\ UNCHANGED <<inputs, plan, eqRet, dmeRet, denseSt, el, KG, loadRet>>

CallLoadasem ==
    /\ Ready(5) /\ dmeRet.st = "ok" /\ loadRet.st = "idle"
    /\ loadRet' = loadasem(loads, dmeRet.IBC, dmeRet.neq)
    /\ UNCHANGED <<inputs, plan, eqRet, dmeRet, denseSt, el, KG, sparseRet>>

Next ==
    \/ CallEqcounter
    \/ CallDME
    \/ DenseBegin
    \/ DenseStep
    \/ DenseReturn
    \/ CallSparse
    \/ CallLoadasem

(***************************************************************************)
(* Input families                                                          *)
(***************************************************************************)
AllCalls == {Calls[c] : c \in 1..Len(Calls)}

FreeNodes(n) == [i \in 0..(n - 1) |-> MkNode(i, <<0, 0>>)]

SpringOn(n) == [i \in 0..0 |-> MkElem(0, 5, 0, [j \in 0..1 |-> IF j = 0 THEN 0 ELSE n - 1], 2)]

LoadOn(n) == [i \in 0..0 |-> MkLoad(n - 1, 1, 2)]

\* one complete run on two free nodes joined by a spring
FullRun ==
    /\ nodes = FreeNodes(2)
    /\ elements = SpringOn(2)
    /\ loads = LoadOn(2)
    /\ mats = MatTable(1)
    /\ uel = NoUel
    /\ plan = AllCalls

\* meshes of springs on node tables with constrained and malformed BC flags
Init ==
    /\ \/ /\ \E n \in 1..MaxNodes :
               /\ nodes \in NodeTables(n, BCPairs)
               /\ \E m \in 0..MaxEls :
                    elements \in ElemTables(m, 2, {5}, {0},
                                            LAMBDA t : DistinctConn(t, 0..(n - 1)))
               /\ loads = LoadOn(n)
          /\ mats = MatTable(1)
          /\ uel = NoUel
          /\ plan = {"DME", "dense", "sparse"}
       \/ FullRun
    /\ InitOut

Spec == Init /\ [][Next]_allvars

\* every node table, for the equation counter alone
InitEq ==
    /\ \/ /\ \E n \in 1..MaxNodes : nodes \in NodeTables(n, FlagVals \X FlagVals)
          /\ elements = SpringOn(1)
          /\ loads = LoadOn(1)
          /\ mats = MatTable(1)
          /\ uel = NoUel
          /\ plan = {"eqcounter"}
       \/ FullRun
    /\ InitOut

SpecEq == InitEq /\ [][Next]_allvars

\* meshes of a spring and a triangle, in both orders, for the assembly operator
MixedTables(N) ==
    {[i \in 0..1 |-> IF i = 0 THEN a ELSE b] :
        a \in ElemRows(0, 3, {5}, {0}, LAMBDA t : AnyConn(t, N)),
        b \in ElemRows(1, 3, {3}, {0}, LAMBDA t : AnyConn(t, N))}
    \cup
    {[i \in 0..1 |-> IF i = 0 THEN a ELSE b] :
        a \in ElemRows(0, 3, {3}, {0}, LAMBDA t : AnyConn(t, N)),
        b \in ElemRows(1, 3, {5}, {0}, LAMBDA t : AnyConn(t, N))}

InitDME ==
    /\ \/ /\ \E n \in 1..MaxNodes :
               /\ nodes \in NodeTables(n, BCPairs)
               /\ elements \in MixedTables(0..(n - 1))
               /\ loads = LoadOn(n)
          /\ mats = MatTable(1)
          /\ uel = NoUel
          /\ plan = {"eqcounter", "DME"}
       \/ FullRun
    /\ InitOut

SpecDME == InitDME /\ [][Next]_allvars

\* load lists on node tables with constrained and malformed BC flags
InitLoad ==
    /\ \/ /\ \E n \in 1..MaxNodes :
               /\ nodes \in NodeTables(n, BCPairs)
               /\ elements = SpringOn(n)
               /\ \E m \in 0..MaxLoads : loads \in LoadLists(m, 0..(n - 1))
          /\ mats = MatTable(1)
          /\ uel = NoUel
          /\ plan = {"DME", "loadasem"}
       \/ FullRun
    /\ InitOut

SpecLoad == InitLoad /\ [][Next]_allvars

\* DOF counts an override kernel may report: a spring's, a beam's, more than DMECols
UelNdofs == {4, 6, DMECols + 1}

\* meshes of springs assembled with a caller-supplied kernel
InitUel ==
    /\ \/ /\ \E n \in 1..MaxNodes :
               /\ nodes \in NodeTables(n, FileFlags \X FileFlags)
               /\ \E m \in 1..MaxEls :
                    elements \in ElemTables(m, 2, {5}, {0},
                                            LAMBDA t : DistinctConn(t, 0..(n - 1)))
               /\ loads = LoadOn(n)
          /\ mats = MatTable(1)
          /\ uel \in {[given |-> TRUE, ndof |-> d] : d \in UelNdofs}
          /\ plan = {"DME", "dense", "sparse"}
       \/ FullRun
    /\ InitOut

SpecUel == InitUel /\ [][Next]_allvars

\* meshes whose elements may reference node ids and material indices out of range
InitRef ==
    /\ \/ /\ \E n \in 1..MaxNodes :
               /\ nodes \in NodeTables(n, {<<0, 0>>, <<0, Flt(-1)>>})
               /\ \E m \in 1..MaxEls :
                    elements \in ElemTables(m, 2, {5}, (-1)..MaxMats,
                                            LAMBDA t : AnyConn(t, (-1)..n))
               /\ loads = LoadOn(n)
          /\ mats = MatTable(MaxMats)
          /\ uel = NoUel
          /\ plan = {"DME", "dense", "sparse"}
       \/ FullRun
    /\ InitOut

SpecRef == InitRef /\ [][Next]_allvars

\* complete runs on meshes whose BC flags are all 0 or -1
InitWellFormed ==
    /\ \E n \in 1..MaxNodes :
         /\ nodes \in NodeTables(n, FileFlags \X FileFlags)
         /\ \E m \in 0..MaxEls :
              elements \in ElemTables(m, 2, {5}, {0}, LAMBDA t : AnyConn(t, 0..(n - 1)))
         /\ \E m \in 0..MaxLoads : loads \in LoadLists(m, 0..(n - 1))
    /\ mats = MatTable(1)
    /\ uel = NoUel
    /\ plan = AllCalls
    /\ InitOut

SpecWellFormed == InitWellFormed /\ [][Next]_allvars

(***************************************************************************)
(* Properties                                                              *)
(***************************************************************************)
NodeIds == 0..(Size(nodes) - 1)
ElemIds == 0..(Size(elements) - 1)
Dofs == NodeIds \X (0..1)

\* position of DOF d = <<node, component>> in the node-then-DOF scan
ScanPos(d) == 2 * d[1] + d[2]

\* the BC flag of DOF d, as the node table holds it
Flag(d) == nodes[d[1]][d[2] + 3]

C2_NonzeroIsSentinel ==
    eqRet.st = "ok" =>
        \A d \in Dofs : (Flag(d) # 0 /\ Flag(d) % 2 = 0) => eqRet.IBC[d[1]][d[2]] = -1

\* what retriever returns for element e
Ret(e) == retriever(elements, mats, nodes, e, uel)

\* the local DOFs a < ndof(e) of element e whose operator entry is g
Loc(e, g) == {a \in DOMAIN dmeRet.DME[e] : a < Ret(e).ndof /\ dmeRet.DME[e][a] = g}

\* the local-DOF pairs <<e, a, b>> of the first k elements with DME[e][a] = r
\* and DME[e][b] = c
Pairs(k, r, c) == UNION {{e} \X Loc(e, r) \X Loc(e, c) : e \in 0..(k - 1)}

\* the contribution of the pair t = <<e, a, b>>
PairValue(t) == Ret(t[1]).kloc[t[2]][t[3]]

\* sum of the contributions of a set of pairs
RECURSIVE SumPairs(_)
SumPairs(S) ==
    IF S = {} THEN 0
    ELSE LET x == CHOOSE y \in S : TRUE IN PairValue(x) + SumPairs(S \ {x})

\* C3: after the first el elements of dense_assem, KG[r][c] is the sum of
\* kloc_e[a][b] over the processed elements e and the local pairs (a, b) with
\* DME[e][a] = r and DME[e][b] = c; nothing else is ever added.
C3_DenseIsSum ==
    denseSt \in {"running", "returned"} =>
        \A r, c \in 0..(dmeRet.neq - 1) :
            KG[r][c] = SumPairs(Pairs(el, r, c))

\* C4: the dense and the sparse assembler give the same neq x neq matrix, entry
\* by entry (or both fail).
C4_DenseEqualsSparse ==
    (denseSt \in {"returned", "raised"} /\ sparseRet.st # "idle") =>
        \/ denseSt = "returned" /\ sparseRet.st = "ok" /\ sparseRet.KG = KG
        \/ denseSt = "raised" /\ sparseRet.st = "raised"

\* the node of load entry i
LoadNode(i) == PyInt(loads[i][0])

\* the (entry, component) pairs of the load list that target equation q
Hits(q) ==
    {h \in (0..(Size(loads) - 1)) \X (0..1) :
        LoadNode(h[1]) \in NodeIds /\ dmeRet.IBC[LoadNode(h[1])][h[2]] = q}

\* the last of them in input order
LastHit(q) == CHOOSE h \in Hits(q) : \A g \in Hits(q) : ScanPos(g) <= ScanPos(h)

\* C5: loadasem returns a vector of length neq whose slot q holds the load
\* component of the last entry that targets equation q, and 0 if there is none.
C5_LoadLastWins ==
    loadRet.st # "idle" =>
        /\ loadRet.st = "ok"
        /\ DOMAIN loadRet.RHSG = 0..(dmeRet.neq - 1)
        /\ \A q \in 0..(dmeRet.neq - 1) :
              loadRet.RHSG[q] = IF Hits(q) = {} THEN 0
                                ELSE loads[LastHit(q)[1]][LastHit(q)[2] + 1]

\* the permutations of the element rows
Perms == {f \in [ElemIds -> ElemIds] : \A x, y \in ElemIds : x # y => f[x] # f[y]}

\* an array with its rows permuted by f
Permuted(arr, f) == [i \in DOMAIN f |-> arr[f[i]]]

\* C6: for every permutation of the element rows (operator rows permuted alike)
\* dense_assem and sparse_assem return what they return for the original order.
C6_OrderInvariant ==
    (denseSt \in {"returned", "raised"} /\ sparseRet.st # "idle" /\ loadRet.st = "idle") =>
        \A f \in Perms :
            LET r == assembler(Permuted(elements, f), mats, nodes, dmeRet.neq,
                               Permuted(dmeRet.DME, f), FALSE, uel)
            IN  /\ \/ denseSt = "returned" /\ r.st = "ok" /\ r.KG = KG
                   \/ denseSt = "raised" /\ r.st = "raised"
                /\ assembler(Permuted(elements, f), mats, nodes, dmeRet.neq,
                             Permuted(dmeRet.DME, f), TRUE, uel) = sparseRet

\* both assemblers have returned for two springs that run opposite ways between
\* two free nodes, so every entry of the matrix got two different contributions
C6_Witness ==
    /\ denseSt = "returned"
    /\ sparseRet.st = "ok"
    /\ Size(elements) = 2
    /\ dmeRet.neq = 4
    /\ elements[0][3] = elements[1][4]
    /\ elements[0][4] = elements[1][3]
    /\ KG[0][1] = Ret(0).kloc[0][1] + Ret(1).kloc[2][3]

\* element e has the DOF count the operator row was filled for
Consistent(e) ==
    /\ Ret(e).ndof <= 2 * TypeNodes(elements[e][1])
    /\ Ret(e).ndof <= DMECols

\* C7: an element whose kernel reports more DOFs than its operator row holds is
\* never assembled: the assembler fails before it scatters any of its entries.
C7_InconsistentNdofFails ==
    /\ denseSt \in {"running", "returned"} => \A e \in 0..(el - 1) : Consistent(e)
    /\ (denseSt = "raised" /\ el = 0 /\ Ret(0).st = "ok" /\ ~Consistent(0)) =>
           KG = Zeros2(dmeRet.neq, dmeRet.neq)
    /\ sparseRet.st = "ok" => \A e \in ElemIds : Consistent(e)

\* element e references a node id / a material index out of range
BadNode(e) ==
    \E j \in 0..(TypeNodes(elements[e][1]) - 1) : elements[e][j + 3] \notin NodeIds

BadMat(e) == elements[e][2] \notin 0..(Size(mats) - 1)

\* C8: with a node id or a material index out of range (negative ones included)
\* DME and the assemblers fail and return nothing.
C8_BadReferenceFails ==
    /\ (\E e \in ElemIds : BadNode(e)) => dmeRet.st # "ok"
    /\ (\E e \in ElemIds : BadNode(e) \/ BadMat(e)) =>
           (denseSt # "returned" /\ sparseRet.st # "ok")

\* C9: when both BC flags of every node are nonzero, neq is 0 and the assemblers
\* and loadasem complete with empty results.
C9_AllConstrainedEmpty ==
    (\A d \in Dofs : Flag(d) # 0) =>
        /\ dmeRet.st # "idle" => (dmeRet.st = "ok" /\ dmeRet.neq = 0)
        /\ denseSt # "raised"
        /\ sparseRet.st # "idle" => (sparseRet.st = "ok" /\ sparseRet.KG = Zeros2(0, 0))
        /\ loadRet.st # "idle" => (loadRet.st = "ok" /\ loadRet.RHSG = Zeros(0))

\* C10: DME returns the (neq, IBC) of eqcounter, and entry 2j+l of operator row e
\* is the Equation Map value of component l of the j-th node of element e.
C10_OperatorLayout ==
    dmeRet.st = "ok" =>
        /\ eqRet.st = "ok" => (dmeRet.neq = eqRet.neq /\ dmeRet.IBC = eqRet.IBC)
        /\ \A e \in ElemIds :
              \A j \in 0..(TypeNodes(elements[e][1]) - 1) : \A l \in 0..1 :
                  dmeRet.DME[e][2 * j + l] = dmeRet.IBC[elements[e][j + 3]][l]

\* DME has returned the operator of a triangle and a spring on nodes whose two
\* components have different Equation Map values
C10_Witness ==
    /\ dmeRet.st = "ok"
    /\ eqRet.st = "ok"
    /\ Size(elements) = 2
    /\ elements[0][1] = 3
    /\ elements[1][1] = 5
    /\ elements[0][5] # elements[0][3]
    /\ dmeRet.neq >= 3
    /\ dmeRet.DME[0][4] # dmeRet.DME[0][5]
    /\ dmeRet.DME[1][0] # dmeRet.DME[1][1]

====
